---- MODULE Spec2Model ----
(***************************************************************************)
(* Profile screen of the Kids Learning Tracker: the week-boundary          *)
(* calculation (getStartOfWeek), the statistics fetch (fetchProfileData)   *)
(* of the three screen implementations (profile.tsx, profile.ios.tsx,      *)
(* unnamed/part_002) and the handlers that invoke it.                      *)
(***************************************************************************)
EXTENDS Integers, Sequences, FiniteSets, TLC

(***************************************************************************)
(* Time.  An instant is a number of ticks since 2024-01-01T00:00Z, a       *)
(* Monday.  A JavaScript Date holds an instant; its local fields are read  *)
(* through the time-zone offset tz (a fixed offset: no daylight saving).   *)
(***************************************************************************)
TicksPerDay == 2

\* First day (counted from 2024-01-01) of January, February, March, April 2024.
MonthStartDay == <<0, 31, 60, 91>>

Months == 1..3

\* The week-boundary check draws `now` from the days MinNowDay..MaxNowDay.
MinNowDay == 7

MaxNowDay == 88

MinNow == MinNowDay * TicksPerDay + 1

MaxNow == (MaxNowDay + 1) * TicksPerDay

\* Time-zone offsets in ticks (UTC-12, UTC, UTC+12).
TzSet == {-1, 0, 1}

LocalTime(t, z) == t + z

Day(lt) == lt \div TicksPerDay

TimeWithinDay(lt) == lt % TicksPerDay

\* ECMAScript WeekDay: 0 = Sunday ... 6 = Saturday.  Day 0 is a Monday.
WeekDay(d) == (d + 1) % 7

MonthFromDay(d) == CHOOSE m \in Months : MonthStartDay[m] <= d /\ d < MonthStartDay[m + 1]

DateFromDay(d) == d - MonthStartDay[MonthFromDay(d)] + 1

\* ECMAScript MakeDay(year, month, date): date may be <= 0 or past the month's end.
MakeDay(m, date) == MonthStartDay[m] + date - 1

getDay(t, z) == WeekDay(Day(LocalTime(t, z)))

getDate(t, z) == DateFromDay(Day(LocalTime(t, z)))

\* Date.prototype.setDate: same month and time of day, the given day of month.
setDate(t, z, date) ==
  LET lt == LocalTime(t, z)
  IN  (MakeDay(MonthFromDay(Day(lt)), date) * TicksPerDay + TimeWithinDay(lt)) - z

\* Date.prototype.setHours(0, 0, 0, 0): local midnight of the same local day.
setHoursZero(t, z) == (Day(LocalTime(t, z)) * TicksPerDay) - z

\* Date.prototype.toISOString: the UTC calendar fields of the instant.
toISOString(t) ==
  [mo |-> MonthFromDay(Day(t)), da |-> DateFromDay(Day(t)), ti |-> TimeWithinDay(t)]

\* The data store reading an ISO timestamp back into an instant.
parseTimestamp(s) == MakeDay(s.mo, s.da) * TicksPerDay + s.ti

\* The offset without its Sunday case.
DiffNoSundayCase(dayOfWeek) == 1 - dayOfWeek

\* The Sunday offset added with the sign of the subtracting variants.
DiffSundayForward(dayOfWeek) == IF dayOfWeek = 0 THEN 6 ELSE 1 - dayOfWeek

\* profile.tsx: adds diff = -6 (Sunday) or 1 - dayOfWeek.
DiffTsx(dayOfWeek) == IF dayOfWeek = 0 THEN -6 ELSE 1 - dayOfWeek

getStartOfWeekTsx(t, z) ==
  LET dayOfWeek == getDay(t, z)
      diff == DiffTsx(dayOfWeek)
      monday == setDate(t, z, getDate(t, z) + diff)
  IN  setHoursZero(monday, z)

\* The weekday offset one day too long.
DiffSubOneMore(dayOfWeek) == IF dayOfWeek = 0 THEN 6 ELSE dayOfWeek

\* profile.ios.tsx: subtracts diff = 6 (Sunday) or dayOfWeek - 1, returns the ISO text.
DiffSub(dayOfWeek) == IF dayOfWeek = 0 THEN 6 ELSE dayOfWeek - 1

getStartOfWeekIos(t, z) ==
  LET dayOfWeek == getDay(t, z)
      diff == DiffSub(dayOfWeek)
      monday == setDate(t, z, getDate(t, z) - diff)
  IN  toISOString(setHoursZero(monday, z))

\* unnamed/part_002: subtracts the same diff, returns the Date.
getStartOfWeekP002(t, z) ==
  LET dayOfWeek == getDay(t, z)
      diff == DiffSub(dayOfWeek)
      monday == setDate(t, z, getDate(t, z) - diff)
  IN  setHoursZero(monday, z)

(***************************************************************************)
(* The data store (external): four tables holding records drawn from one   *)
(* universe of record ids; a record has an owning child and a created_at.  *)
(***************************************************************************)
NoChild == 0

Children == {1, 2}

\* The week the screen runs in starts on day 7 * MainWeek (a Monday).
MainWeek == 4

MainMonday == 7 * MainWeek

\* Local Monday 00:00 of that week for tz = 1, as an instant.
Boundary == MainMonday * TicksPerDay - 1

RecIds == 1..5

RecChild == <<1, 1, 1, 1, 2>>

RecAt == <<Boundary - 1, Boundary, Boundary + 3, Boundary + 4, Boundary + 2>>

Tables == {"user_words", "words", "user_books", "moments"}

InitStore ==
  [t \in Tables |->
     CASE t = "user_words" -> {1, 2, 5}
       [] t = "words"      -> {1, 3, 4}
       [] t = "user_books" -> {1, 2, 3, 5}
       [] t = "moments"    -> {1, 2, 3, 4, 5}]

NoSince == -1

\* The filter with .gt in place of .gte.
RowsAfter(db, t, c, since) ==
  {id \in db[t] : RecChild[id] = c /\ (since = NoSince \/ RecAt[id] > since)}

\* .eq('child_id', c) and, when given, .gte('created_at', since)
Rows(db, t, c, since) ==
  {id \in db[t] : RecChild[id] = c /\ (since = NoSince \/ RecAt[id] >= since)}

\* select('*', { count: 'exact', head: true })
CountOf(db, t, c, since) == Cardinality(Rows(db, t, c, since))

RECURSIVE SortDesc(_)
\* .order('created_at', { ascending: false })
SortDesc(ids) ==
  IF ids = {} THEN <<>>
  ELSE LET top == CHOOSE x \in ids : \A y \in ids : RecAt[y] <= RecAt[x]
       IN  <<top>> \o SortDesc(ids \ {top})

\* .limit(n)
Limit(seq, n) == IF Len(seq) <= n THEN seq ELSE SubSeq(seq, 1, n)

RecentMoments(db, c, n) == Limit(SortDesc(Rows(db, "moments", c, NoSince)), n)

(***************************************************************************)
(* State.                                                                  *)
(***************************************************************************)
VARIABLES
  screen,         \* which implementation runs: "tsx", "ios" or "p002"
  now, tz,        \* the clock reading new Date() returns, the time zone
  weekOut,        \* results of the week-boundary calculation (SpecWeek)
  store,          \* the data store: table -> set of record ids
  storeVer,       \* number of changes made to the data store
  failures,       \* number of failures injected so far
  selectedChild,  \* useChild().selectedChild
  childLoading,   \* useChild().loading
  mounted,        \* the mount effects have run
  focused,        \* the Profile tab has focus
  stats,          \* useState<ProfileStats>
  moments,        \* useState<Moment[]>
  loading,        \* useState(true)
  refreshing,     \* useState(false)
  inv,            \* the fetchProfileData invocations in flight
  nextSeq,        \* issue number of the next fetchProfileData invocation
  alerts,         \* number of 'Failed to load profile data' alerts raised
  statsBy,        \* the invocation whose results stats holds (0: none, all 0)
  momentsBy,      \* the invocation whose list moments holds (0: none, empty)
  calls,          \* the calls the latest step made to fetchProfileData,
                  \* fetchProfileStats and refreshUsage
  rf,             \* profile.ios.tsx onRefresh suspended at its await
  avatarFor,      \* part_002: the child an open Change Avatar dialog captured
  focusVer,       \* storeVer when the tab last gained focus (-1: never)
  timers,         \* profile.tsx: pending timers of debouncedFetchProfileData
  failedThumbnails, \* useState<Set<string>>: ids whose thumbnail failed to load
  psOn,           \* the fetches of ProfileStatsProvider are followed
  profileStats,   \* ProfileStatsProvider: useState({ words: 0, books: 0 })
  psInv,          \* the fetchProfileStats invocations in flight
  psSeq,          \* issue number of the next fetchProfileStats invocation
  extraFetches,   \* fetchProfileData invocations explored beyond MaxFetches
  selectedMoment, \* useState<Moment | null>: NoMoment, or the moment to play
  showVideoPlayer, \* useState(false)
  urlPending,     \* handleMomentPress invocations awaiting getSignedVideoUrl
  nextPress,      \* issue number of the next such invocation
  videoAlerts     \* alerts raised by handleMomentPress, counted per message

vars ==
  <<screen, now, tz, weekOut, store, storeVer, failures, selectedChild,
    childLoading, mounted, focused, stats, moments, loading, refreshing,
    inv, nextSeq, alerts, statsBy, momentsBy, calls, rf, avatarFor,
    focusVer, timers, failedThumbnails, psOn, profileStats, psInv, psSeq,
    extraFetches, selectedMoment, showVideoPlayer, urlPending, nextPress,
    videoAlerts>>

Screens == {"tsx", "ios", "p002"}

\* Bounds of the exploration.
MaxFetches == 2

MaxInFlight == 2

MaxMutations == 1

MaxFailures == 1

MaxTimers == 2

\* Refetches after an avatar change explored beyond MaxFetches.
MaxAvatarFetches == 1

\* fetchProfileStats invocations of the provider.
MaxStatsFetches == 2

\* Fetches explored beyond MaxFetches where thumbnail failures meet a change
\* of the selected child or a pull to refresh.
MaxThumbFetches == 3

\* handleMomentPress invocations that await getSignedVideoUrl.
MaxPresses == 2

\* getSignedVideoUrl calls that return null or reject.
MaxUrlFailures == 1

\* Fetches explored beyond MaxFetches where a pull to refresh meets fetches
\* already in flight.
MaxRefreshFetches == 1

Pending == -1

Err == -2

CountQueries ==
  {"totalWords", "totalBooks", "wordsThisWeek", "booksThisWeek", "momentsThisWeek"}

Queries == CountQueries \cup {"moments"}

\* part_002 awaits its queries one after the other, in this order.
P002Order ==
  <<"totalWords", "totalBooks", "wordsThisWeek", "booksThisWeek",
    "momentsThisWeek", "moments">>

ZeroStats ==
  [totalWords |-> 0, totalBooks |-> 0, wordsThisWeek |-> 0, booksThisWeek |-> 0,
   momentsThisWeek |-> 0, newWordsThisWeek |-> 0]

\* The table each screen reads its word counts from.
WordsTable(sc) == IF sc = "p002" THEN "words" ELSE "user_words"

\* The records other tabs and devices add to or remove from the tables.
Mutable(sc) == {<<WordsTable(sc), 5>>, <<"moments", 4>>}

\* .limit(3) in profile.tsx, .limit(6) in profile.ios.tsx and part_002.
MomentsLimit(sc) == IF sc = "tsx" THEN 3 ELSE 6

\* The lower bound the this-week queries send, read back by the data store.
WeekLowerBound(sc, t, z) ==
  CASE sc = "tsx"  -> parseTimestamp(toISOString(getStartOfWeekTsx(t, z)))
    [] sc = "ios"  -> parseTimestamp(getStartOfWeekIos(t, z))
    [] sc = "p002" -> parseTimestamp(toISOString(getStartOfWeekP002(t, z)))

QueryTable(sc, k) ==
  CASE k \in {"totalWords", "wordsThisWeek"} -> WordsTable(sc)
    [] k \in {"totalBooks", "booksThisWeek"} -> "user_books"
    [] OTHER -> "moments"

QuerySince(k, sow) ==
  IF k \in {"wordsThisWeek", "booksThisWeek", "momentsThisWeek"} THEN sow ELSE NoSince

\* What the data store answers to count query k (profile.tsx reads the rows of
\* its this-week queries and takes data.length).
Answer(db, sc, k, c, sow) == CountOf(db, QueryTable(sc, k), c, QuerySince(k, sow))

(***************************************************************************)
(* The component state the handlers read and write, as one record, so that *)
(* a handler that makes several calls is the composition of their effects. *)
(***************************************************************************)
NoCalls ==
  [fetchProfileData |-> <<>>, fetchProfileStats |-> 0, refreshUsage |-> 0,
   statsPromise |-> "none"]

Cur ==
  [stats |-> stats, moments |-> moments, loading |-> loading,
   refreshing |-> refreshing, inv |-> inv, nextSeq |-> nextSeq, alerts |-> alerts,
   statsBy |-> statsBy, momentsBy |-> momentsBy,
   calls |-> NoCalls, rf |-> rf,
   profileStats |-> profileStats, psInv |-> psInv, psSeq |-> psSeq]

Commit(s) ==
  /\ stats' = s.stats
  /\ moments' = s.moments
  /\ loading' = s.loading
  /\ refreshing' = s.refreshing
  /\ inv' = s.inv
  /\ nextSeq' = s.nextSeq
  /\ alerts' = s.alerts
  /\ statsBy' = s.statsBy
  /\ momentsBy' = s.momentsBy
  /\ calls' = s.calls
  /\ rf' = s.rf
  /\ profileStats' = s.profileStats
  /\ psInv' = s.psInv
  /\ psSeq' = s.psSeq

\* A fetchProfileData invocation suspended at an await: the child its closure
\* captured, the lower bound it computed, and its queries' results so far.
NewInv(seq, c) ==
  [seq |-> seq, child |-> c,
   sow |-> WeekLowerBound(screen, now, tz),
   q |-> [k \in Queries |-> Pending], list |-> <<>>,
   pc |-> "await", step |-> 1, ver |-> storeVer]

\* `count || 0` and `data?.length || 0`: a failed query's null becomes 0.
OrZero(v) == IF v = Err THEN 0 ELSE v

\* A setStats whose newWordsThisWeek is taken from the all-time word count.
StatsFromTotalWords(r) ==
  [totalWords |-> OrZero(r.q["totalWords"]),
   totalBooks |-> OrZero(r.q["totalBooks"]),
   wordsThisWeek |-> OrZero(r.q["wordsThisWeek"]),
   booksThisWeek |-> OrZero(r.q["booksThisWeek"]),
   momentsThisWeek |-> OrZero(r.q["momentsThisWeek"]),
   newWordsThisWeek |-> OrZero(r.q["totalWords"])]

\* The object passed to setStats.
StatsFrom(r) ==
  [totalWords |-> OrZero(r.q["totalWords"]),
   totalBooks |-> OrZero(r.q["totalBooks"]),
   wordsThisWeek |-> OrZero(r.q["wordsThisWeek"]),
   booksThisWeek |-> OrZero(r.q["booksThisWeek"]),
   momentsThisWeek |-> OrZero(r.q["momentsThisWeek"]),
   newWordsThisWeek |-> OrZero(r.q["wordsThisWeek"])]

\* setStats guarded by a sequence token: a response older than the one shown
\* is dropped.
SetStatsIfNewer(s, r) ==
  IF r.seq > s.statsBy THEN [s EXCEPT !.stats = StatsFrom(r), !.statsBy = r.seq]
  ELSE s

SetStats(s, r) == [s EXCEPT !.stats = StatsFrom(r), !.statsBy = r.seq]

SetMoments(s, r, ms) == [s EXCEPT !.moments = ms, !.momentsBy = r.seq]

\* catch: Alert.alert('Error', 'Failed to load profile data ...')
Catch(s, r) == [s EXCEPT !.alerts = @ + 1]

\* A finally block that clears nothing.
FinallyKeepsLoading(s) == s

\* finally of profile.tsx: setLoading(false); setRefreshing(false)
FinallyTsx(s) == [s EXCEPT !.loading = FALSE, !.refreshing = FALSE]

\* finally of profile.ios.tsx and part_002: setLoading(false)
FinallyIos(s) == [s EXCEPT !.loading = FALSE]

Finally(s) == IF screen = "tsx" THEN FinallyTsx(s) ELSE FinallyIos(s)


Suspend(s, r) == [s EXCEPT !.inv = @ \cup {r}]

(***************************************************************************)
(* fetchProfileData up to its first await, for the child c its closure     *)
(* captured.                                                               *)
(***************************************************************************)
\* The call is recorded with the child its closure captured and forceRefresh.
Called(s, c, force) ==
  [s EXCEPT !.calls.fetchProfileData = Append(@, <<c, force>>)]

fetchProfileDataTsx(s, c, force) ==
  IF c = NoChild
  THEN [Called(s, c, force) EXCEPT !.loading = FALSE]
  ELSE Suspend([Called(s, c, force) EXCEPT !.loading = TRUE, !.nextSeq = @ + 1],
               NewInv(s.nextSeq, c))

fetchProfileDataIos(s, c, force) ==
  IF c = NoChild
  THEN [Called(s, c, force) EXCEPT !.stats = ZeroStats, !.statsBy = 0,
                                    !.moments = <<>>, !.momentsBy = 0,
                                    !.loading = FALSE]
  ELSE Suspend([Called(s, c, force) EXCEPT !.loading = TRUE, !.nextSeq = @ + 1],
               NewInv(s.nextSeq, c))

fetchProfileDataP002(s, c, force) ==
  IF c = NoChild
  THEN [Called(s, c, force) EXCEPT !.loading = FALSE]
  ELSE Suspend([Called(s, c, force) EXCEPT !.loading = TRUE, !.nextSeq = @ + 1],
               NewInv(s.nextSeq, c))

fetchProfileData(s, c, force) ==
  CASE screen = "tsx"  -> fetchProfileDataTsx(s, c, force)
    [] screen = "ios"  -> fetchProfileDataIos(s, c, force)
    [] screen = "p002" -> fetchProfileDataP002(s, c, force)

(***************************************************************************)
(* fetchProfileData after its queries have settled (r holds the results).  *)
(***************************************************************************)
\* profile.tsx lines 142-163
ResumeTsx(s, r) ==
  LET s1 == SetStats(s, r)
  IN  IF r.q["moments"] # Err /\ Len(r.list) > 0
      THEN Suspend(s1, [r EXCEPT !.pc = "process"])
      ELSE FinallyTsx(SetMoments(s1, r, <<>>))

\* profile.ios.tsx lines 155-169
ResumeIos(s, r) ==
  LET s1 == SetStats(s, r)
  IN  IF r.q["moments"] # Err
      THEN Suspend(s1, [r EXCEPT !.pc = "process"])
      ELSE FinallyIos(s1)

\* part_002 line 356: processMomentsWithSignedUrls(momentsData || []) is awaited
\* before anything is written.
ResumeP002(s, r) == Suspend(s, [r EXCEPT !.pc = "process"])

Resume(s, r) ==
  CASE screen = "tsx"  -> ResumeTsx(s, r)
    [] screen = "ios"  -> ResumeIos(s, r)
    [] screen = "p002" -> ResumeP002(s, r)

\* After processMomentsWithSignedUrls resolved with ms.
ProcessedTsx(s, r, ms) == FinallyTsx(SetMoments(s, r, ms))

ProcessedIos(s, r, ms) == FinallyIos(SetMoments(s, r, ms))

\* part_002 lines 358-366: setStats and setMoments together.
ProcessedP002(s, r, ms) ==
  FinallyIos(SetMoments(SetStats(s, r), r, ms))

Processed(s, r, ms) ==
  CASE screen = "tsx"  -> ProcessedTsx(s, r, ms)
    [] screen = "ios"  -> ProcessedIos(s, r, ms)
    [] screen = "p002" -> ProcessedP002(s, r, ms)

\* A rejected await or a thrown error: catch, then finally.
Failed(s, r) == Finally(Catch(s, r))

(***************************************************************************)
(* Effects and handlers of the screen.                                     *)
(***************************************************************************)
NoRf == [active |-> FALSE, seq |-> 0, ctx |-> {}]

(***************************************************************************)
(* ProfileStatsProvider.                                                   *)
(***************************************************************************)
\* A fetchProfileStats invocation suspended at the await of its words count
\* query (step 1) or of its books count query (step 2).
NewStatsInv(seq, c) ==
  [seq |-> seq, child |-> c, step |-> 1, words |-> Pending, books |-> Pending]

\* The async function returns: the promise it gave its caller resolves.
StatsReturns(s) == [s EXCEPT !.calls.statsPromise = "resolved"]

\* A fetchProfileStats that leaves the counts alone when no child is selected.
fetchProfileStatsSkipsNoChild(s, c) ==
  IF c = NoChild THEN StatsReturns(s)
  ELSE [s EXCEPT !.psInv = @ \cup {NewStatsInv(s.psSeq, c)}, !.psSeq = @ + 1]

\* fetchProfileStats up to its first await, for the child its closure captured.
fetchProfileStats(s, c) ==
  IF c = NoChild THEN StatsReturns([s EXCEPT !.profileStats = [words |-> 0, books |-> 0]])
  ELSE [s EXCEPT !.psInv = @ \cup {NewStatsInv(s.psSeq, c)}, !.psSeq = @ + 1]

\* useEffect(..., [selectedChild?.id, fetchProfileStats]) of the provider.
ProviderEffect(s, c) == IF psOn THEN fetchProfileStats(s, c) ELSE s

\* A catch block that resets the counts before returning.
StatsCatchResets(s) ==
  StatsReturns([s EXCEPT !.profileStats = [words |-> 0, books |-> 0]])

\* catch (error) { console.error(...) }: nothing is set, nothing rethrown.
StatsCatch(s) == StatsReturns(s)

\* A fetchProfileStats that also overwrites the word total the screen holds.
AfterStatsQueriesIntoScreen(s, r) ==
  IF r.words = Err \/ r.books = Err THEN StatsCatch(s)
  ELSE StatsReturns(
         [s EXCEPT !.profileStats = [words |-> OrZero(r.words), books |-> OrZero(r.books)],
                   !.stats.totalWords = OrZero(r.words)])

\* fetchProfileStats after both awaits: an error of either query is thrown
\* and caught, otherwise setProfileStats.
AfterStatsQueries(s, r) ==
  IF r.words = Err \/ r.books = Err THEN StatsCatch(s)
  ELSE StatsReturns(
         [s EXCEPT !.profileStats = [words |-> OrZero(r.words), books |-> OrZero(r.books)]])

\* The query fetchProfileStats awaits resolves with v (a count, or Err for
\* { count: null, error }).
StatsQueryResult(s, r, v) ==
  IF r.step = 1
  THEN [s EXCEPT !.psInv = (@ \ {r}) \cup {[r EXCEPT !.step = 2, !.words = v]}]
  ELSE AfterStatsQueries([s EXCEPT !.psInv = @ \ {r}], [r EXCEPT !.books = v])

\* The table the awaited query of r counts.
StatsTable(r) == IF r.step = 1 THEN "user_words" ELSE "user_books"

\* fetchProfileStats() and refreshUsage() of the contexts are called; the
\* screen's closure holds the fetchProfileStats of the render of child c.
CallContexts(s, c) ==
  LET s1 == [s EXCEPT !.calls.fetchProfileStats = @ + 1, !.calls.refreshUsage = @ + 1]
  IN  IF psOn THEN fetchProfileStats(s1, c) ELSE s1

\* useEffect(..., [selectedChild, childLoading, fetchProfileData])
InitialFetchEffect(s, c, l) ==
  CASE screen = "ios" -> fetchProfileData(s, c, FALSE)
    [] OTHER -> IF c # NoChild /\ ~l THEN fetchProfileData(s, c, FALSE) ELSE s

\* useFocusEffect callback
FocusEffect(s, c) ==
  IF c = NoChild THEN s
  ELSE IF screen = "p002" THEN fetchProfileData(s, c, TRUE)
       ELSE CallContexts(fetchProfileData(s, c, TRUE), c)

\* profile.ios.tsx onRefresh after its await Promise.all([...]) resolved.
RefreshResume(s) ==
  IF s.rf.active /\ s.rf.ctx = {} /\ \A r \in s.inv : r.seq # s.rf.seq
  THEN [s EXCEPT !.refreshing = FALSE, !.rf = NoRf]
  ELSE s

\* The bounds of the exploration hold after the handler.
WithinBounds(s) ==
  /\ s.nextSeq <= MaxFetches + extraFetches + 1
  /\ Cardinality(s.inv) <= MaxInFlight
  /\ s.psSeq <= MaxStatsFetches + 1

Do(s) ==
  /\ WithinBounds(s)
  /\ Commit(RefreshResume(s))

\* What is on screen: the early returns of the render function.
MainView ==
  IF screen = "ios" THEN ~(loading /\ selectedChild = NoChild)
  ELSE ~(loading \/ childLoading) /\ selectedChild # NoChild

\* The 'No Child Selected' view with the Add Child button (profile.tsx and
\* part_002; profile.ios.tsx has none).
EmptyStateShown ==
  /\ screen # "ios"
  /\ ~(loading \/ childLoading)
  /\ selectedChild = NoChild

\* A new selectedChild gives a new fetchProfileData and so a new debounced
\* closure with its own timeoutId: timers armed before can no longer be cleared.
Orphaned(ts) == [i \in DOMAIN ts |-> [ts[i] EXCEPT !.live = FALSE]]

\* The screen mounts, focused: both effects run.
Mount ==
  /\ ~mounted
  /\ mounted' = TRUE
  /\ focused' = TRUE
  /\ focusVer' = storeVer
  /\ Do(FocusEffect(InitialFetchEffect(Cur, selectedChild, childLoading),
                    selectedChild))
  /\ UNCHANGED <<selectedMoment, showVideoPlayer, urlPending, nextPress, videoAlerts,
                 extraFetches, failedThumbnails, psOn, screen, now, tz, weekOut, store, storeVer, failures,
                 selectedChild, childLoading, avatarFor, timers>>

\* The child context finishes loading with child c selected (or none).
ChildrenLoaded(c) ==
  /\ mounted
  /\ childLoading
  /\ childLoading' = FALSE
  /\ selectedChild' = c
  /\ timers' = IF c # selectedChild THEN Orphaned(timers) ELSE timers
  /\ LET s1 == InitialFetchEffect(Cur, c, FALSE)
         s2 == IF focused /\ c # selectedChild THEN FocusEffect(s1, c) ELSE s1
     IN  Do(IF c # selectedChild THEN ProviderEffect(s2, c) ELSE s2)
  /\ UNCHANGED <<selectedMoment, showVideoPlayer, urlPending, nextPress, videoAlerts,
                 extraFetches, failedThumbnails, psOn, screen, now, tz, weekOut, store, storeVer, failures,
                 mounted, focused, avatarFor, focusVer>>

\* Another child is selected, or the selection is cleared.
SelectChild(c) ==
  /\ mounted
  /\ ~childLoading
  /\ c # selectedChild
  /\ selectedChild' = c
  /\ timers' = Orphaned(timers)
  /\ LET s1 == InitialFetchEffect(Cur, c, FALSE)
     IN  Do(ProviderEffect(IF focused THEN FocusEffect(s1, c) ELSE s1, c))
  /\ UNCHANGED <<selectedMoment, showVideoPlayer, urlPending, nextPress, videoAlerts,
                 extraFetches, failedThumbnails, psOn, screen, now, tz, weekOut, store, storeVer, failures,
                 childLoading, mounted, focused, avatarFor, focusVer>>

\* The Profile tab gains focus.
Focus ==
  /\ mounted
  /\ ~focused
  /\ focused' = TRUE
  /\ focusVer' = storeVer
  /\ Do(FocusEffect(Cur, selectedChild))
  /\ UNCHANGED <<selectedMoment, showVideoPlayer, urlPending, nextPress, videoAlerts,
                 extraFetches, failedThumbnails, psOn, screen, now, tz, weekOut, store, storeVer, failures,
                 selectedChild, childLoading, mounted, avatarFor, timers>>

Blur ==
  /\ mounted
  /\ focused
  /\ focused' = FALSE
  /\ calls' = NoCalls
  /\ UNCHANGED <<profileStats, psInv, psSeq>>
  /\ UNCHANGED <<selectedMoment, showVideoPlayer, urlPending, nextPress, videoAlerts,
                 extraFetches, failedThumbnails, psOn, screen, now, tz, weekOut, store, storeVer, failures,
                 selectedChild, childLoading, mounted, stats, moments, loading,
                 refreshing, inv, nextSeq, alerts, statsBy, momentsBy,
                 rf, avatarFor, focusVer, timers>>

\* profile.tsx onRefresh: it awaits nothing; rf keeps the issue number of the
\* fetchProfileData it started.
onRefreshTsx(s, c) ==
  LET s1 == CallContexts(fetchProfileData([s EXCEPT !.refreshing = TRUE], c, TRUE), c)
  IN  [s1 EXCEPT !.rf = [active |-> FALSE,
                         seq |-> IF c = NoChild THEN 0 ELSE s.nextSeq,
                         ctx |-> {}]]

\* profile.ios.tsx onRefresh up to its await
onRefreshIos(s, c) ==
  LET s1 == CallContexts(fetchProfileData([s EXCEPT !.refreshing = TRUE], c, TRUE), c)
  IN  [s1 EXCEPT !.rf = [active |-> TRUE,
                         seq |-> IF c = NoChild THEN 0 ELSE s.nextSeq,
                         ctx |-> {"stats", "usage"}]]

\* Pull to refresh (part_002 has no refresh control).
PullToRefresh ==
  /\ mounted
  /\ focused
  /\ screen # "p002"
  /\ MainView
  /\ ~refreshing
  /\ Do(IF screen = "tsx" THEN onRefreshTsx(Cur, selectedChild)
        ELSE onRefreshIos(Cur, selectedChild))
  /\ UNCHANGED <<selectedMoment, showVideoPlayer, urlPending, nextPress, videoAlerts,
                 extraFetches, failedThumbnails, psOn, screen, now, tz, weekOut, store, storeVer, failures,
                 selectedChild, childLoading, mounted, focused, avatarFor,
                 focusVer, timers>>

\* A promise onRefresh of profile.ios.tsx awaits resolves: fetchProfileStats
\* catches its errors and always resolves; refreshUsage may also reject.
ContextResolves(p) ==
  /\ rf.active
  /\ p \in rf.ctx
  /\ Do([Cur EXCEPT !.rf.ctx = @ \ {p}])
  /\ UNCHANGED <<selectedMoment, showVideoPlayer, urlPending, nextPress, videoAlerts,
                 extraFetches, failedThumbnails, psOn, screen, now, tz, weekOut, store, storeVer, failures,
                 selectedChild, childLoading, mounted, focused, avatarFor,
                 focusVer, timers>>

\* refreshUsage rejects: Promise.all rejects and onRefresh never reaches
\* setRefreshing(false).
UsageRejects ==
  /\ rf.active
  /\ "usage" \in rf.ctx
  /\ failures < MaxFailures
  /\ failures' = failures + 1
  /\ Do([Cur EXCEPT !.rf = NoRf])
  /\ UNCHANGED <<selectedMoment, showVideoPlayer, urlPending, nextPress, videoAlerts,
                 extraFetches, failedThumbnails, psOn, screen, now, tz, weekOut, store, storeVer,
                 selectedChild, childLoading, mounted, focused, avatarFor,
                 focusVer, timers>>

\* part_002 handleChangeAvatar: the dialog's buttons close over selectedChild
\* and fetchProfileData of the render that opened it.
OpenAvatarDialog ==
  /\ mounted
  /\ focused
  /\ screen = "p002"
  /\ MainView
  /\ avatarFor = NoChild
  /\ avatarFor' = selectedChild
  /\ calls' = NoCalls
  /\ UNCHANGED <<profileStats, psInv, psSeq>>
  /\ UNCHANGED <<selectedMoment, showVideoPlayer, urlPending, nextPress, videoAlerts,
                 extraFetches, failedThumbnails, psOn, screen, now, tz, weekOut, store, storeVer, failures,
                 selectedChild, childLoading, mounted, focused, stats, moments,
                 loading, refreshing, inv, nextSeq, alerts, statsBy, momentsBy,
                 rf, focusVer, timers>>

\* A button of the dialog ran to its `await fetchProfileData(true)`.
AvatarRefetch ==
  /\ avatarFor # NoChild
  /\ avatarFor' = NoChild
  /\ nextSeq <= MaxFetches + MaxAvatarFetches
  /\ Cardinality(inv) < MaxInFlight
  /\ Commit(fetchProfileDataP002(Cur, avatarFor, TRUE))
  /\ UNCHANGED <<selectedMoment, showVideoPlayer, urlPending, nextPress, videoAlerts,
                 extraFetches, failedThumbnails, psOn, screen, now, tz, weekOut, store, storeVer, failures,
                 selectedChild, childLoading, mounted, focused, focusVer, timers>>

\* The dialog is cancelled.
AvatarCancel ==
  /\ avatarFor # NoChild
  /\ avatarFor' = NoChild
  /\ calls' = NoCalls
  /\ UNCHANGED <<profileStats, psInv, psSeq>>
  /\ UNCHANGED <<selectedMoment, showVideoPlayer, urlPending, nextPress, videoAlerts,
                 extraFetches, failedThumbnails, psOn, screen, now, tz, weekOut, store, storeVer, failures,
                 selectedChild, childLoading, mounted, focused, stats, moments,
                 loading, refreshing, inv, nextSeq, alerts, statsBy, momentsBy,
                 rf, focusVer, timers>>

\* profile.tsx debouncedFetchProfileData(forceRefresh): clears the timer this
\* closure armed last, if it is still pending, and arms a new one.
debouncedFetchProfileData(forceRefresh) ==
  /\ mounted
  /\ screen = "tsx"
  /\ timers' = Append(SelectSeq(timers, LAMBDA t : ~t.live),
                      [child |-> selectedChild, force |-> forceRefresh,
                       live |-> TRUE])
  /\ Len(timers') <= MaxTimers
  /\ calls' = NoCalls
  /\ UNCHANGED <<profileStats, psInv, psSeq>>
  /\ UNCHANGED <<selectedMoment, showVideoPlayer, urlPending, nextPress, videoAlerts,
                 extraFetches, failedThumbnails, psOn, screen, now, tz, weekOut, store, storeVer, failures,
                 selectedChild, childLoading, mounted, focused, stats, moments,
                 loading, refreshing, inv, nextSeq, alerts, statsBy, momentsBy,
                 rf, avatarFor, focusVer>>

\* A timer fires after 300 ms: fetchProfileData(forceRefresh) of the closure
\* that armed it.
DebounceTimerFires(i) ==
  /\ i \in DOMAIN timers
  /\ timers' = [j \in 1..(Len(timers) - 1) |->
                  IF j < i THEN timers[j] ELSE timers[j + 1]]
  /\ Do(fetchProfileDataTsx(Cur, timers[i].child, timers[i].force))
  /\ UNCHANGED <<selectedMoment, showVideoPlayer, urlPending, nextPress, videoAlerts,
                 extraFetches, failedThumbnails, psOn, screen, now, tz, weekOut, store, storeVer, failures,
                 selectedChild, childLoading, mounted, focused, avatarFor,
                 focusVer>>

(***************************************************************************)
(* The data store answers, the signed-URL processing settles.              *)
(*                                                                         *)
(* A query is served by the data store at some instant between being       *)
(* issued and settling.  Its result depends on that instant only through   *)
(* the changes made to the store, so q[k] of an invocation stays Pending   *)
(* until the query settles unless the store changes first: StoreChanges    *)
(* decides for each outstanding query whether it was served before the     *)
(* change.                                                                 *)
(***************************************************************************)
\* The queries of r that have been issued and have not settled:
\* all six of the Promise.all of profile.tsx and profile.ios.tsx,
\* the one part_002 is awaiting.
Issued(r) ==
  IF r.pc # "await" THEN {}
  ELSE IF screen = "p002" THEN {P002Order[r.step]}
  ELSE {k \in Queries : r.q[k] # Err}

ListOf(db, r) == RecentMoments(db, r.child, MomentsLimit(screen))

\* The query's result taken from the data store db.
Served(db, r, k) ==
  IF k = "moments"
  THEN [r EXCEPT !.q[k] = Len(ListOf(db, r)), !.list = ListOf(db, r)]
  ELSE [r EXCEPT !.q[k] = Answer(db, screen, k, r.child, r.sow)]

RECURSIVE ServedAll(_, _, _)
ServedAll(db, r, ks) ==
  IF ks = {} THEN r
  ELSE LET k == CHOOSE x \in ks : TRUE
       IN  ServedAll(db, Served(db, r, k), ks \ {k})

NotServed(r) == {k \in Issued(r) : r.q[k] = Pending}

Without(s, r) == [s EXCEPT !.inv = @ \ {r}]

\* profile.tsx, profile.ios.tsx: await Promise.all([...]) resolves; every
\* query not served before an earlier change of the store sees the store as
\* it is now.
PromiseAllResolves(r) ==
  /\ r \in inv
  /\ screen # "p002"
  /\ r.pc = "await"
  /\ Do(Resume(Without(Cur, r), ServedAll(store, r, NotServed(r))))
  /\ UNCHANGED <<selectedMoment, showVideoPlayer, urlPending, nextPress, videoAlerts,
                 extraFetches, failedThumbnails, psOn, screen, now, tz, weekOut, store, storeVer, failures,
                 selectedChild, childLoading, mounted, focused, avatarFor, focusVer, timers>>

\* setStats after every answer instead of once after the last.
AfterAnswerEager(s, r) ==
  IF r.step = Len(P002Order) THEN ResumeP002(SetStats(s, r), r)
  ELSE Suspend(SetStats(s, r), [r EXCEPT !.step = @ + 1])

\* part_002: the awaited query returns { count/data, error: null }; the next
\* query is issued, or processMomentsWithSignedUrls is called after the last.
AfterAnswerP002(s, r) ==
  IF r.step = Len(P002Order) THEN ResumeP002(s, r)
  ELSE Suspend(s, [r EXCEPT !.step = @ + 1])

QueryAnswers(r) ==
  /\ r \in inv
  /\ screen = "p002"
  /\ r.pc = "await"
  /\ Do(AfterAnswerP002(Without(Cur, r), ServedAll(store, r, NotServed(r))))
  /\ UNCHANGED <<selectedMoment, showVideoPlayer, urlPending, nextPress, videoAlerts,
                 extraFetches, failedThumbnails, psOn, screen, now, tz, weekOut, store, storeVer, failures,
                 selectedChild, childLoading, mounted, focused, avatarFor, focusVer, timers>>

\* After query k of r returned { data: null, count: null, error }:
\* part_002 throws the error, the other two screens never look at it.
AfterQueryError(s, r) ==
  IF screen = "p002" THEN Failed(s, r) ELSE Suspend(s, r)

QueryReturnsError(r, k) ==
  /\ r \in inv
  /\ k \in Issued(r)
  /\ failures < MaxFailures
  /\ failures' = failures + 1
  /\ Do(AfterQueryError(Without(Cur, r),
                        [r EXCEPT !.q[k] = Err, !.list = IF k = "moments" THEN <<>> ELSE @]))
  /\ UNCHANGED <<selectedMoment, showVideoPlayer, urlPending, nextPress, videoAlerts,
                 extraFetches, failedThumbnails, psOn, screen, now, tz, weekOut, store, storeVer,
                 selectedChild, childLoading, mounted, focused, avatarFor, focusVer, timers>>

\* Query k of r rejects: the await throws into the catch block.
QueryRejects(r, k) ==
  /\ r \in inv
  /\ k \in Issued(r)
  /\ failures < MaxFailures
  /\ failures' = failures + 1
  /\ Do(Failed(Without(Cur, r), r))
  /\ UNCHANGED <<selectedMoment, showVideoPlayer, urlPending, nextPress, videoAlerts,
                 extraFetches, failedThumbnails, psOn, screen, now, tz, weekOut, store, storeVer,
                 selectedChild, childLoading, mounted, focused, avatarFor, focusVer, timers>>

\* processMomentsWithSignedUrls: every moment with its two signed URLs
\* (TRUE: a URL, FALSE: null).
Resolved(list, nullVideo, nullThumb) ==
  [i \in 1..Len(list) |->
     [id |-> list[i], v |-> list[i] \notin nullVideo, t |-> list[i] \notin nullThumb]]

ProcessResolves(r) ==
  /\ r \in inv
  /\ r.pc = "process"
  /\ Do(Processed(Without(Cur, r), r, Resolved(r.list, {}, {})))
  /\ UNCHANGED <<selectedMoment, showVideoPlayer, urlPending, nextPress, videoAlerts,
                 extraFetches, failedThumbnails, psOn, screen, now, tz, weekOut, store, storeVer, failures,
                 selectedChild, childLoading, mounted, focused, avatarFor, focusVer, timers>>

\* One URL of one moment could not be signed: the moment carries null for it.
ProcessResolvesWithNull(r, id, video) ==
  /\ r \in inv
  /\ r.pc = "process"
  /\ \E i \in 1..Len(r.list) : r.list[i] = id
  /\ failures < MaxFailures
  /\ failures' = failures + 1
  /\ Do(Processed(Without(Cur, r), r,
                  IF video THEN Resolved(r.list, {id}, {})
                  ELSE Resolved(r.list, {}, {id})))
  /\ UNCHANGED <<selectedMoment, showVideoPlayer, urlPending, nextPress, videoAlerts,
                 extraFetches, failedThumbnails, psOn, screen, now, tz, weekOut, store, storeVer,
                 selectedChild, childLoading, mounted, focused, avatarFor, focusVer, timers>>

ProcessRejects(r) ==
  /\ r \in inv
  /\ r.pc = "process"
  /\ failures < MaxFailures
  /\ failures' = failures + 1
  /\ Do(Failed(Without(Cur, r), r))
  /\ UNCHANGED <<selectedMoment, showVideoPlayer, urlPending, nextPress, videoAlerts,
                 extraFetches, failedThumbnails, psOn, screen, now, tz, weekOut, store, storeVer,
                 selectedChild, childLoading, mounted, focused, avatarFor, focusVer, timers>>

(***************************************************************************)
(* The queries of fetchProfileStats settle.                                *)
(***************************************************************************)
\* The count query r awaits resolves with the count of its table.
StatsQueryAnswers(r) ==
  /\ r \in psInv
  /\ Do(StatsQueryResult(Cur, r, CountOf(store, StatsTable(r), r.child, NoSince)))
  /\ UNCHANGED <<selectedMoment, showVideoPlayer, urlPending, nextPress, videoAlerts,
                 extraFetches, failedThumbnails, psOn, screen, now, tz, weekOut, store, storeVer,
                 failures, selectedChild, childLoading, mounted, focused,
                 avatarFor, focusVer, timers>>

\* The count query r awaits resolves with { count: null, error }.
StatsQueryReturnsError(r) ==
  /\ r \in psInv
  /\ failures < MaxFailures
  /\ failures' = failures + 1
  /\ Do(StatsQueryResult(Cur, r, Err))
  /\ UNCHANGED <<selectedMoment, showVideoPlayer, urlPending, nextPress, videoAlerts,
                 extraFetches, failedThumbnails, psOn, screen, now, tz, weekOut, store, storeVer,
                 selectedChild, childLoading, mounted, focused,
                 avatarFor, focusVer, timers>>

\* The count query r awaits rejects: the catch block logs, nothing is set.
StatsQueryRejects(r) ==
  /\ r \in psInv
  /\ failures < MaxFailures
  /\ failures' = failures + 1
  /\ Do(StatsCatch([Cur EXCEPT !.psInv = @ \ {r}]))
  /\ UNCHANGED <<selectedMoment, showVideoPlayer, urlPending, nextPress, videoAlerts,
                 extraFetches, failedThumbnails, psOn, screen, now, tz, weekOut, store, storeVer,
                 selectedChild, childLoading, mounted, focused,
                 avatarFor, focusVer, timers>>

\* The selected child changes while the Profile tab has not been opened: of
\* the code modelled here only the provider, mounted above the tabs, reacts.
ProviderChildChanges(c) ==
  /\ psOn
  /\ ~mounted
  /\ c # selectedChild
  /\ selectedChild' = c
  /\ childLoading' = FALSE
  /\ Do(ProviderEffect(Cur, c))
  /\ UNCHANGED <<selectedMoment, showVideoPlayer, urlPending, nextPress, videoAlerts,
                 extraFetches, failedThumbnails, psOn, screen, now, tz, weekOut, store, storeVer,
                 failures, mounted, focused, avatarFor, focusVer, timers>>

(***************************************************************************)
(* The video player of profile.tsx and profile.ios.tsx.                    *)
(***************************************************************************)
\* selectedMoment = null
NoMoment == [id |-> 0, v |-> FALSE]

\* setSelectedMoment({ ...moment, signedVideoUrl: videoUrl }) and
\* setShowVideoPlayer(true)
OpenPlayer(id) ==
  /\ selectedMoment' = [id |-> id, v |-> TRUE]
  /\ showVideoPlayer' = TRUE

\* Everything the video handlers leave alone.
VideoFrame ==
  /\ calls' = NoCalls
  /\ UNCHANGED <<profileStats, psInv, psSeq>>
  /\ UNCHANGED <<extraFetches, failedThumbnails, psOn, screen, now, tz, weekOut,
                 store, storeVer, failures, selectedChild, childLoading, mounted,
                 focused, stats, moments, loading, refreshing, inv, nextSeq,
                 alerts, statsBy, momentsBy, rf, avatarFor, focusVer, timers>>

\* A handleMomentPress that asks the resolver for every moment pressed.
handleMomentPressAlwaysResolves(i) ==
  /\ mounted
  /\ MainView
  /\ screen # "p002"
  /\ i \in DOMAIN moments
  /\ nextPress <= MaxPresses
  /\ urlPending' = urlPending \cup {[n |-> nextPress, id |-> moments[i].id]}
  /\ nextPress' = nextPress + 1
  /\ UNCHANGED <<selectedMoment, showVideoPlayer, videoAlerts>>
  /\ VideoFrame

\* handleMomentPress(moment) up to its await, or to its end when the moment
\* carries a signed video URL.
handleMomentPress(i) ==
  /\ mounted
  /\ MainView
  /\ screen # "p002"
  /\ i \in DOMAIN moments
  /\ IF moments[i].v
     THEN /\ OpenPlayer(moments[i].id)
          /\ UNCHANGED <<urlPending, nextPress>>
     ELSE /\ nextPress <= MaxPresses
          /\ urlPending' = urlPending \cup {[n |-> nextPress, id |-> moments[i].id]}
          /\ nextPress' = nextPress + 1
          /\ UNCHANGED <<selectedMoment, showVideoPlayer>>
  /\ UNCHANGED videoAlerts
  /\ VideoFrame

\* getSignedVideoUrl resolves with a URL: the player opens.
VideoUrlResolves(p) ==
  /\ p \in urlPending
  /\ urlPending' = urlPending \ {p}
  /\ OpenPlayer(p.id)
  /\ UNCHANGED <<nextPress, videoAlerts>>
  /\ VideoFrame

\* Alert.alert('Error', ...) of handleMomentPress; the handler returns.
VideoAlert(message) ==
  /\ videoAlerts' = [videoAlerts EXCEPT ![message] = @ + 1]
  /\ UNCHANGED <<selectedMoment, showVideoPlayer>>

\* getSignedVideoUrl resolves with null: 'Unable to load video'.
VideoUrlNull(p) ==
  /\ p \in urlPending
  /\ videoAlerts.unable + videoAlerts.failed < MaxUrlFailures
  /\ urlPending' = urlPending \ {p}
  /\ VideoAlert("unable")
  /\ UNCHANGED nextPress
  /\ VideoFrame

\* getSignedVideoUrl rejects: the catch block alerts 'Failed to load video'.
VideoUrlRejects(p) ==
  /\ p \in urlPending
  /\ videoAlerts.unable + videoAlerts.failed < MaxUrlFailures
  /\ urlPending' = urlPending \ {p}
  /\ VideoAlert("failed")
  /\ UNCHANGED nextPress
  /\ VideoFrame

\* A close handler that clears the moment and leaves the player flag set.
handleCloseClearsMomentOnly ==
  /\ showVideoPlayer
  /\ selectedMoment # NoMoment
  /\ selectedMoment' = NoMoment
  /\ UNCHANGED <<showVideoPlayer, urlPending, nextPress, videoAlerts>>
  /\ VideoFrame

\* onClose of the player: setShowVideoPlayer(false); setSelectedMoment(null)
handleCloseVideoPlayer ==
  /\ showVideoPlayer
  /\ selectedMoment # NoMoment
  /\ showVideoPlayer' = FALSE
  /\ selectedMoment' = NoMoment
  /\ UNCHANGED <<urlPending, nextPress, videoAlerts>>
  /\ VideoFrame

(***************************************************************************)
(* Thumbnails.                                                             *)
(***************************************************************************)
\* A tile that looks at the thumbnail URL only.
ThumbnailShownByUrl(m) == m.t

\* The moment's tile renders <Image>; otherwise the placeholder.  part_002
\* keeps no set of failed thumbnails.
ThumbnailShown(m) ==
  IF screen = "p002" THEN m.t
  ELSE m.t /\ m.id \notin failedThumbnails

\* A handler that keeps only the latest failure: new Set([momentId]).
handleThumbnailErrorReplaces(momentId) ==
  /\ mounted
  /\ MainView
  /\ screen # "p002"
  /\ \E i \in DOMAIN moments : moments[i].id = momentId /\ ThumbnailShown(moments[i])
  /\ failedThumbnails' = {momentId}
  /\ calls' = NoCalls
  /\ UNCHANGED <<profileStats, psInv, psSeq>>
  /\ UNCHANGED <<selectedMoment, showVideoPlayer, urlPending, nextPress, videoAlerts,
                 extraFetches, psOn, screen, now, tz, weekOut, store, storeVer, failures,
                 selectedChild, childLoading, mounted, focused, stats, moments,
                 loading, refreshing, inv, nextSeq, alerts, statsBy, momentsBy,
                 rf, avatarFor, focusVer, timers>>

\* onError of a rendered thumbnail <Image>: handleThumbnailError(momentId)
handleThumbnailError(momentId) ==
  /\ mounted
  /\ MainView
  /\ screen # "p002"
  /\ \E i \in DOMAIN moments : moments[i].id = momentId /\ ThumbnailShown(moments[i])
  /\ failedThumbnails' = failedThumbnails \cup {momentId}
  /\ calls' = NoCalls
  /\ UNCHANGED <<profileStats, psInv, psSeq>>
  /\ UNCHANGED <<selectedMoment, showVideoPlayer, urlPending, nextPress, videoAlerts,
                 extraFetches, psOn, screen, now, tz, weekOut, store, storeVer, failures,
                 selectedChild, childLoading, mounted, focused, stats, moments,
                 loading, refreshing, inv, nextSeq, alerts, statsBy, momentsBy,
                 rf, avatarFor, focusVer, timers>>

Toggled(db, t, id) ==
  [db EXCEPT ![t] = IF id \in @ THEN @ \ {id} ELSE @ \cup {id}]

\* The outstanding queries of r whose answer the change from db to db2 alters.
Affected(r, db, db2) ==
  {k \in NotServed(r) : Served(db, r, k) # Served(db2, r, k)}

\* What r may look like after the store changed from db to db2: any of its
\* outstanding queries may have been served before the change.
EarlyChoices(r, db, db2) ==
  {ServedAll(db, r, ks) : ks \in SUBSET Affected(r, db, db2)}

RECURSIVE EarlyAll(_, _, _)
EarlyAll(rs, db, db2) ==
  IF rs = {} THEN {{}}
  ELSE LET r == CHOOSE x \in rs : TRUE
       IN  {{x} \cup rest : x \in EarlyChoices(r, db, db2),
                            rest \in EarlyAll(rs \ {r}, db, db2)}

\* A record is added to or removed from a table (from another tab or device).
StoreChanges(t, id) ==
  /\ storeVer < MaxMutations
  /\ <<t, id>> \in Mutable(screen)
  /\ storeVer' = storeVer + 1
  /\ store' = Toggled(store, t, id)
  /\ inv' \in EarlyAll(inv, store, Toggled(store, t, id))
  /\ calls' = NoCalls
  /\ UNCHANGED <<profileStats, psInv, psSeq>>
  /\ UNCHANGED <<selectedMoment, showVideoPlayer, urlPending, nextPress, videoAlerts,
                 extraFetches, failedThumbnails, psOn, screen, now, tz, weekOut, failures, selectedChild,
                 childLoading, mounted, focused, stats, moments, loading,
                 refreshing, nextSeq, alerts, statsBy, momentsBy,
                 rf, avatarFor, focusVer, timers>>

(***************************************************************************)
(* The specification of the screen.                                        *)
(***************************************************************************)
\* Sunday noon (local time, tz = 1) of the main week.
MainNow == (MainMonday + 6) * TicksPerDay

\* The component after construction (the useState initial values), before its
\* effects have run.
InitComponent ==
  /\ weekOut = <<>>
  /\ store = InitStore
  /\ storeVer = 0
  /\ failures = 0
  /\ \/ childLoading = TRUE /\ selectedChild = NoChild
     \/ childLoading = FALSE /\ selectedChild \in Children \cup {NoChild}
  /\ mounted = FALSE
  /\ focused = FALSE
  /\ stats = ZeroStats
  /\ moments = <<>>
  /\ loading = TRUE
  /\ refreshing = FALSE
  /\ inv = {}
  /\ nextSeq = 1
  /\ alerts = 0
  /\ statsBy = 0
  /\ momentsBy = 0
  /\ calls = NoCalls
  /\ rf = NoRf
  /\ avatarFor = NoChild
  /\ focusVer = -1
  /\ timers = <<>>
  /\ failedThumbnails = {}
  /\ profileStats = [words |-> 0, books |-> 0]
  /\ selectedMoment = NoMoment
  /\ showVideoPlayer = FALSE
  /\ urlPending = {}
  /\ nextPress = 1
  /\ videoAlerts = [unable |-> 0, failed |-> 0]

\* The provider's fetches are not followed: only the calls to it are recorded.
ProviderNotFollowed ==
  /\ psOn = FALSE
  /\ psInv = {}
  /\ psSeq = 1

Init ==
  /\ extraFetches = 0
  /\ screen \in Screens
  /\ tz = 1
  /\ now = MainNow
  /\ InitComponent
  /\ ProviderNotFollowed

Next ==
  \/ Mount
  \/ \E c \in Children \cup {NoChild} : ChildrenLoaded(c)
  \/ \E c \in Children \cup {NoChild} : SelectChild(c)
  \/ Focus
  \/ Blur
  \/ PullToRefresh
  \/ \E p \in {"stats", "usage"} : ContextResolves(p)
  \/ UsageRejects
  \/ OpenAvatarDialog
  \/ AvatarRefetch
  \/ AvatarCancel
  \/ \E r \in inv : PromiseAllResolves(r)
  \/ \E r \in inv : QueryAnswers(r)
  \/ \E r \in inv, k \in Queries : QueryReturnsError(r, k)
  \/ \E r \in inv, k \in Queries : QueryRejects(r, k)
  \/ \E r \in inv : ProcessResolves(r)
  \/ \E r \in inv, id \in RecIds, video \in BOOLEAN : ProcessResolvesWithNull(r, id, video)
  \/ \E r \in inv : ProcessRejects(r)
  \/ \E t \in Tables, id \in RecIds : StoreChanges(t, id)

Spec == Init /\ [][Next]_vars

(***************************************************************************)
(* The week-boundary calculation on its own, for every clock reading and   *)
(* time zone of the bounded calendar.                                      *)
(***************************************************************************)
\* The instant getStartOfWeek() denotes (profile.ios.tsx returns it as text).
getStartOfWeek(sc, t, z) ==
  CASE sc = "tsx"  -> getStartOfWeekTsx(t, z)
    [] sc = "ios"  -> parseTimestamp(getStartOfWeekIos(t, z))
    [] sc = "p002" -> getStartOfWeekP002(t, z)

InitWeek ==
  /\ extraFetches = 0
  /\ screen \in Screens
  /\ tz \in TzSet
  /\ now \in MinNow..MaxNow
  /\ InitComponent
  /\ ProviderNotFollowed

\* const startOfWeek = getStartOfWeek()
ComputeWeek ==
  /\ weekOut = <<>>
  /\ UNCHANGED <<profileStats, psInv, psSeq>>
  /\ weekOut' = <<getStartOfWeek(screen, now, tz)>>
  /\ UNCHANGED <<selectedMoment, showVideoPlayer, urlPending, nextPress, videoAlerts,
                 extraFetches, failedThumbnails, psOn, screen, now, tz, store, storeVer, failures, selectedChild,
                 childLoading, mounted, focused, stats, moments, loading,
                 refreshing, inv, nextSeq, alerts, statsBy, momentsBy, calls,
                 rf, avatarFor, focusVer, timers>>

\* getStartOfWeek() again, with the clock reading the instant it returned.
ComputeWeekOfResult ==
  /\ Len(weekOut) = 1
  /\ UNCHANGED <<profileStats, psInv, psSeq>>
  /\ weekOut' = Append(weekOut, getStartOfWeek(screen, weekOut[1], tz))
  /\ UNCHANGED <<selectedMoment, showVideoPlayer, urlPending, nextPress, videoAlerts,
                 extraFetches, failedThumbnails, psOn, screen, now, tz, store, storeVer, failures, selectedChild,
                 childLoading, mounted, focused, stats, moments, loading,
                 refreshing, inv, nextSeq, alerts, statsBy, momentsBy, calls,
                 rf, avatarFor, focusVer, timers>>

NextWeek ==
  \/ ComputeWeek
  \/ ComputeWeekOfResult

SpecWeek == InitWeek /\ [][NextWeek]_vars

(***************************************************************************)
(* profile.tsx with its debounced fetch in use: debouncedFetchProfileData  *)
(* is the one caller of fetchProfileData that does not test selectedChild. *)
(***************************************************************************)
InitDebounce ==
  /\ extraFetches = 0
  /\ screen = "tsx"
  /\ tz = 1
  /\ now = MainNow
  /\ InitComponent
  /\ ProviderNotFollowed

NextDebounce ==
  \/ Mount
  \/ \E c \in Children \cup {NoChild} : ChildrenLoaded(c)
  \/ \E c \in Children \cup {NoChild} : SelectChild(c)
  \/ Focus
  \/ Blur
  \/ \E r \in inv : PromiseAllResolves(r)
  \/ \E r \in inv : ProcessResolves(r)
  \/ \E forceRefresh \in BOOLEAN : debouncedFetchProfileData(forceRefresh)
  \/ \E i \in 1..MaxTimers : DebounceTimerFires(i)

SpecDebounce == InitDebounce /\ [][NextDebounce]_vars

(***************************************************************************)
(* The screen together with ProfileStatsProvider, whose fetches are        *)
(* followed query by query.                                                *)
(***************************************************************************)
\* The provider is mounted above the screen: its effect has run for the
\* initial selection.
InitProvider ==
  /\ extraFetches = 0
  /\ screen \in Screens
  /\ tz = 1
  /\ now = MainNow
  /\ InitComponent
  /\ psOn = TRUE
  /\ psInv = IF selectedChild = NoChild THEN {} ELSE {NewStatsInv(1, selectedChild)}
  /\ psSeq = IF selectedChild = NoChild THEN 1 ELSE 2

NextProvider ==
  \/ Mount
  \/ \E c \in Children \cup {NoChild} : ChildrenLoaded(c)
  \/ \E c \in Children \cup {NoChild} : SelectChild(c)
  \/ Focus
  \/ Blur
  \/ \E r \in inv : PromiseAllResolves(r)
  \/ \E r \in inv : QueryAnswers(r)
  \/ \E r \in inv : ProcessResolves(r)
  \/ \E r \in psInv : StatsQueryAnswers(r)
  \/ \E t \in Tables, id \in RecIds : StoreChanges(t, id)

SpecProvider == InitProvider /\ [][NextProvider]_vars

(***************************************************************************)
(* The screen with every issued query and the signed-URL processing        *)
(* settling eventually.  The queries and the processing are promises of    *)
(* network requests that resolve or reject; React runs the effects of a    *)
(* mounted component.  Nothing obliges the child to change, the tab to     *)
(* gain or lose focus, or a request to fail.                               *)
(***************************************************************************)
\* An await of invocation r settles, one way or another.
Settles(r) ==
  \/ PromiseAllResolves(r)
  \/ QueryAnswers(r)
  \/ \E k \in Queries : QueryReturnsError(r, k)
  \/ \E k \in Queries : QueryRejects(r, k)
  \/ ProcessResolves(r)
  \/ ProcessRejects(r)

NextLive ==
  \/ Mount
  \/ \E c \in Children \cup {NoChild} : ChildrenLoaded(c)
  \/ \E c \in Children \cup {NoChild} : SelectChild(c)
  \/ Focus
  \/ Blur
  \/ \E r \in inv : PromiseAllResolves(r)
  \/ \E r \in inv : QueryAnswers(r)
  \/ \E r \in inv, k \in Queries : QueryReturnsError(r, k)
  \/ \E r \in inv, k \in Queries : QueryRejects(r, k)
  \/ \E r \in inv : ProcessResolves(r)
  \/ \E r \in inv : ProcessRejects(r)

\* Weak fairness of the settling of invocation n, WF_vars(\E r \in inv :
\* r.seq = n /\ Settles(r)), with its enabling condition written out: an
\* await of an invocation in flight can always settle.
SettlesFairly(n) ==
  \/ []<>(\A r \in inv : r.seq # n)
  \/ []<><<\E r \in inv : r.seq = n /\ Settles(r)>>_vars

Fairness ==
  /\ WF_vars(Mount)
  /\ \A n \in 1..MaxFetches : SettlesFairly(n)

SpecLive == Init /\ [][NextLive]_vars /\ Fairness

(***************************************************************************)
(* ProfileStatsProvider on its own, before the Profile tab is opened: the  *)
(* child changes, the count queries answer, return an error or reject.    *)
(***************************************************************************)
InitStats ==
  /\ screen = "tsx"
  /\ InitProvider

NextStats ==
  \/ \E c \in Children \cup {NoChild} : ProviderChildChanges(c)
  \/ \E r \in psInv : StatsQueryAnswers(r)
  \/ \E r \in psInv : StatsQueryReturnsError(r)
  \/ \E r \in psInv : StatsQueryRejects(r)

SpecStats == InitStats /\ [][NextStats]_vars

(***************************************************************************)
(* The moments list and the video player of profile.tsx and                *)
(* profile.ios.tsx.                                                        *)
(***************************************************************************)
InitVideo ==
  /\ screen \in {"tsx", "ios"}
  /\ Init

NextVideo ==
  \/ Mount
  \/ \E r \in inv : PromiseAllResolves(r)
  \/ \E r \in inv : ProcessResolves(r)
  \/ \E r \in inv, id \in RecIds, video \in BOOLEAN : ProcessResolvesWithNull(r, id, video)
  \/ \E i \in 1..Cardinality(RecIds) : handleMomentPress(i)
  \/ \E p \in urlPending : VideoUrlResolves(p)
  \/ \E p \in urlPending : VideoUrlNull(p)
  \/ \E p \in urlPending : VideoUrlRejects(p)
  \/ handleCloseVideoPlayer

SpecVideo == InitVideo /\ [][NextVideo]_vars

(***************************************************************************)
(* Pull to refresh on the two screens that have a refresh control, with    *)
(* room for a pull that meets fetches already in flight.                   *)
(***************************************************************************)
InitRefresh ==
  /\ extraFetches = MaxRefreshFetches
  /\ screen \in {"tsx", "ios"}
  /\ tz = 1
  /\ now = MainNow
  /\ InitComponent
  /\ ProviderNotFollowed

NextRefresh ==
  \/ Mount
  \/ Focus
  \/ Blur
  \/ PullToRefresh
  \/ \E p \in {"stats", "usage"} : ContextResolves(p)
  \/ UsageRejects
  \/ \E r \in inv : PromiseAllResolves(r)
  \/ \E r \in inv, k \in Queries : QueryRejects(r, k)
  \/ \E r \in inv : ProcessResolves(r)
  \/ \E r \in inv : ProcessRejects(r)

SpecRefresh == InitRefresh /\ [][NextRefresh]_vars

(***************************************************************************)
(* The moments list and its thumbnails: the screen fetches, a thumbnail    *)
(* URL may be null, a rendered thumbnail may fail to load.                 *)
(***************************************************************************)
NextRender ==
  \/ Mount
  \/ Focus
  \/ Blur
  \/ \E r \in inv : PromiseAllResolves(r)
  \/ \E r \in inv : QueryAnswers(r)
  \/ \E r \in inv : ProcessResolves(r)
  \/ \E r \in inv, id \in RecIds, video \in BOOLEAN : ProcessResolvesWithNull(r, id, video)
  \/ \E momentId \in RecIds : handleThumbnailError(momentId)

SpecRender == Init /\ [][NextRender]_vars

(***************************************************************************)
(* The three screens side by side: each mounts for the same child against  *)
(* the same data store, which nothing changes, and no query fails.         *)
(***************************************************************************)
NextScreens ==
  \/ Mount
  \/ \E r \in inv : PromiseAllResolves(r)
  \/ \E r \in inv : QueryAnswers(r)
  \/ \E r \in inv : ProcessResolves(r)

SpecScreens == Init /\ [][NextScreens]_vars

(***************************************************************************)
(* Thumbnail failures of profile.tsx and profile.ios.tsx across fetches,   *)
(* pulls to refresh and changes of the selected child.                     *)
(***************************************************************************)
InitThumbs ==
  /\ extraFetches = MaxThumbFetches
  /\ screen \in {"tsx", "ios"}
  /\ tz = 1
  /\ now = MainNow
  /\ InitComponent
  /\ ProviderNotFollowed

NextThumbs ==
  \/ Mount
  \/ \E c \in Children : SelectChild(c)
  \/ PullToRefresh
  \/ \E r \in inv : PromiseAllResolves(r)
  \/ \E r \in inv : ProcessResolves(r)
  \/ \E r \in inv, id \in RecIds, video \in BOOLEAN : ProcessResolvesWithNull(r, id, video)
  \/ \E momentId \in RecIds : handleThumbnailError(momentId)

SpecThumbs == InitThumbs /\ [][NextThumbs]_vars

(***************************************************************************)
(* Week boundary.                                                          *)
(***************************************************************************)
\* C10: for every clock reading, getStartOfWeek returns local 00:00 of the
\* Monday of the week containing now: 6 days before now's date on a Sunday,
\* otherwise weekday - 1 days before it; it is never later than now and less
\* than 7 days before now.
StartOfWeekIsLocalMonday ==
  weekOut # <<>> =>
    LET start == weekOut[1]
        nowDay == Day(LocalTime(now, tz))
        startDay == Day(LocalTime(start, tz))
    IN  /\ TimeWithinDay(LocalTime(start, tz)) = 0
        /\ WeekDay(startDay) = 1
        /\ nowDay - startDay =
             (IF WeekDay(nowDay) = 0 THEN 6 ELSE WeekDay(nowDay) - 1)
        /\ start <= now
        /\ now - start < 7 * TicksPerDay

\* A Sunday whose Monday lies in the month before (profile.tsx).
SundayAcrossMonthEnd ==
  /\ weekOut # <<>>
  /\ screen = "tsx"
  /\ getDay(now, tz) = 0
  /\ MonthFromDay(Day(LocalTime(weekOut[1], tz)))
       # MonthFromDay(Day(LocalTime(now, tz)))

\* C11: the week-boundary calculation is idempotent: applied to the instant
\* it returned, it returns that instant again, for every clock reading.
StartOfWeekIdempotent ==
  Len(weekOut) = 2 => weekOut[2] = weekOut[1]

\* The calculation was applied twice, starting from a Thursday afternoon.
RecomputedFromThursday ==
  /\ Len(weekOut) = 2
  /\ getDay(now, tz) = 4
  /\ TimeWithinDay(LocalTime(now, tz)) > 0
  /\ weekOut[1] < now

\* C12: the three implementations of getStartOfWeek denote the same instant
\* for every clock reading, so every screen sends the same lower bound with
\* its this-week queries.
StartOfWeekSameOnAllScreens ==
  weekOut # <<>> =>
    \A sc \in Screens :
      /\ getStartOfWeek(sc, now, tz) = weekOut[1]
      /\ WeekLowerBound(sc, now, tz) = WeekLowerBound(screen, now, tz)
      /\ WeekLowerBound(sc, now, tz) = weekOut[1]

\* profile.ios.tsx computed the boundary on a Sunday, where the adding and
\* the subtracting variants use offsets of opposite sign.
SundayOnIos ==
  /\ weekOut # <<>>
  /\ screen = "ios"
  /\ getDay(now, tz) = 0
  /\ weekOut[1] = getStartOfWeekTsx(now, tz)

(***************************************************************************)
(* What the data store holds, counted directly from the records.           *)
(***************************************************************************)
Owned(t, c) == {id \in store[t] : RecChild[id] = c}

\* Records created at or after the local Monday 00:00 of the running week.
SinceMonday(ids) == {id \in ids : RecAt[id] >= Boundary}

\* The await of fetchProfileData after which the screen writes stats.
StatsStage == IF screen = "p002" THEN "process" ELSE "await"

\* In this step invocation r went past the stage it was suspended at.
Passed(r) == \A r2 \in inv' : r2.seq = r.seq => r2.pc # r.pc

\* In this step invocation r returned.
Returned(r) == \A r2 \in inv' : r2.seq # r.seq

(***************************************************************************)
(* Statistics fetch.                                                       *)
(***************************************************************************)
\* C1: when the data store did not change during the fetch and no query
\* failed, the invocation that writes stats for child c sets totalWords and
\* totalBooks to the number of word and book records of c, whatever their
\* created_at, and wordsThisWeek, booksThisWeek, momentsThisWeek to the number
\* of word, book and moment records of c created at or after the start of the
\* week (lower bound included).
FetchCountsMatchStore ==
  [][\A r \in inv :
       (/\ statsBy' = r.seq
        /\ statsBy # r.seq
        /\ r.ver = storeVer
        /\ \A k \in Queries : r.q[k] # Err)
       => LET words == Owned(WordsTable(screen), r.child)
              books == Owned("user_books", r.child)
              moms == Owned("moments", r.child)
          IN  /\ stats'.totalWords = Cardinality(words)
              /\ stats'.totalBooks = Cardinality(books)
              /\ stats'.wordsThisWeek = Cardinality(SinceMonday(words))
              /\ stats'.booksThisWeek = Cardinality(SinceMonday(books))
              /\ stats'.momentsThisWeek = Cardinality(SinceMonday(moms))]_vars

\* profile.tsx has fetched for child 1 from the unchanged store: one of the two
\* words and two of the three books fall in the week, a word and a book lying
\* exactly on the boundary.
FetchedChildOne ==
  /\ screen = "tsx"
  /\ selectedChild = 1
  /\ inv = {}
  /\ storeVer = 0
  /\ failures = 0
  /\ statsBy # 0
  /\ stats.totalWords = 2
  /\ stats.wordsThisWeek = 1
  /\ stats.totalBooks = 3
  /\ stats.booksThisWeek = 2
  /\ stats.momentsThisWeek = 3

\* C2: if a count sub-query of an invocation fails (returns an error or
\* rejects), the invocation writes nothing to stats: when its queries have
\* settled every stats field still holds the value it had.
FailedCountQueryWritesNothing ==
  [][\A r \in inv :
       (/\ r.pc = "await"
        /\ Passed(r)
        /\ \/ \E k \in CountQueries : r.q[k] = Err
           \/ alerts' = alerts + 1)
       => stats' = stats]_vars

\* C3: an invocation with a failed sub-query takes the failure path exactly
\* once: when it returns, one 'Failed to load profile data' alert has been
\* raised for it, and it never returns silently.
FailedQueryAlertsOnce ==
  [][/\ alerts' \in {alerts, alerts + 1}
     /\ \A r \in inv :
          (/\ Returned(r)
           /\ \/ \E k \in Queries : r.q[k] = Err
              \/ (failures' # failures /\ r.pc = "await"))
          => alerts' = alerts + 1]_vars

StatsConsistent ==
  /\ \A f \in DOMAIN stats : stats[f] \in Nat
  /\ stats.wordsThisWeek <= stats.totalWords
  /\ stats.booksThisWeek <= stats.totalBooks

\* No query failed, yet more words this week than words in total: the word
\* was deleted between the two sub-queries of one fetch.
WeekAboveTotalWithoutFailure ==
  /\ failures = 0
  /\ stats.wordsThisWeek > stats.totalWords

StatsWrittenOnceAfterCounts ==
  [][/\ \A r \in inv' : r.pc = "await" => statsBy' # r.seq
     /\ \A r \in inv, r2 \in inv' :
          (r2.seq = r.seq /\ r.pc = "process") => r2.pc = "process"
     /\ (statsBy' # statsBy \/ stats' # stats) =>
          \/ statsBy' = 0
          \/ \E r \in inv : r.seq = statsBy' /\ r.pc = StatsStage /\ Passed(r)]_vars

\* part_002 has four of its count queries answered and the fifth outstanding;
\* stats is still untouched.
CountsPartlyAnswered ==
  /\ screen = "p002"
  /\ statsBy = 0
  /\ stats = ZeroStats
  /\ \E r \in inv : r.pc = "await" /\ r.step = 5 /\ r.q["booksThisWeek"] >= 0

\* C8: the result of one invocation is published atomically: in no state the
\* screen shows, also after the signed-URL processing or the moments query
\* failed, stats comes from one invocation and moments from an earlier one.
StatsAndMomentsFromSameFetch ==
  (mounted /\ MainView) => statsBy = momentsBy

\* C9: whenever the tab gains focus with a child selected,
\* fetchProfileData(true), fetchProfileStats and refreshUsage are each called;
\* and if the data store has not changed since, then once every invocation has
\* settled totalWords and totalBooks equal the store's counts for the selected
\* child.
FocusRefreshes ==
  [][/\ (focused' /\ ~focused /\ selectedChild' # NoChild) =>
          /\ \E i \in DOMAIN calls'.fetchProfileData :
               calls'.fetchProfileData[i] = <<selectedChild', TRUE>>
          /\ calls'.fetchProfileStats >= 1
          /\ calls'.refreshUsage >= 1
     /\ (/\ focused'
         /\ selectedChild' # NoChild
         /\ inv' = {}
         /\ failures' = 0
         /\ focusVer' = storeVer') =>
          /\ stats'.totalWords =
               Cardinality({id \in store'[WordsTable(screen)] :
                              RecChild[id] = selectedChild'})
          /\ stats'.totalBooks =
               Cardinality({id \in store'["user_books"] :
                              RecChild[id] = selectedChild'})]_vars

(***************************************************************************)
(* Derived fields and the moments list.                                    *)
(***************************************************************************)
\* C13: in every reachable state of every screen, before any fetch, after a
\* fetch, after the reset for no child and after a failed fetch, the stats
\* field newWordsThisWeek equals the stats field wordsThisWeek.
NewWordsEqualsWordsThisWeek ==
  stats.newWordsThisWeek = stats.wordsThisWeek

\* A fetch has written stats in which the week's word count is positive and
\* differs from the all-time word count.
WeekWordsBelowTotalShown ==
  /\ statsBy # 0
  /\ stats.wordsThisWeek > 0
  /\ stats.totalWords > stats.wordsThisWeek
  /\ stats.newWordsThisWeek = stats.wordsThisWeek

\* C14: the moments list a fetch for a child displays holds at most 3 records,
\* every one owned by that child, ordered by created_at descending.
ShownMomentsAreThreeNewest ==
  momentsBy # 0 =>
    /\ Len(moments) <= 3
    /\ \A i \in DOMAIN moments :
         /\ \A j \in DOMAIN moments :
              RecChild[moments[i].id] = RecChild[moments[j].id]
         /\ \A j \in DOMAIN moments :
              i < j => RecAt[moments[i].id] >= RecAt[moments[j].id]

\* A screen other than profile.tsx displays the four moments of child 1.
FourMomentsShown ==
  /\ screen # "tsx"
  /\ momentsBy # 0
  /\ Len(moments) = 4
  /\ \A i \in DOMAIN moments : RecChild[moments[i].id] = 1

\* C15: a moment's tile shows the placeholder exactly when the moment has no
\* signedThumbnailUrl or its id has been recorded as a failed thumbnail; a
\* null or a failed thumbnail of one moment leaves the rendering of every
\* other moment as it was and raises no error alert.
PlaceholderIffNullOrFailed ==
  [][/\ \A i \in DOMAIN moments' :
          (~ThumbnailShown(moments[i])') <=>
            (~moments'[i].t \/ moments'[i].id \in failedThumbnails')
     /\ failedThumbnails' # failedThumbnails =>
          /\ alerts' = alerts
          /\ moments' = moments
          /\ \A i \in DOMAIN moments :
               moments[i].id \notin failedThumbnails' \ failedThumbnails =>
                 ThumbnailShown(moments[i])' = ThumbnailShown(moments[i])
     /\ (moments' # moments /\ \E i \in DOMAIN moments' : ~moments'[i].t) =>
          /\ alerts' = alerts
          /\ \A i \in DOMAIN moments' :
               (moments'[i].t /\ moments'[i].id \notin failedThumbnails') =>
                 ThumbnailShown(moments[i])']_vars

\* Three kinds of tile side by side: one moment came without a thumbnail URL,
\* the thumbnail of another failed to load, a third shows its image.
PlaceholdersBesideImage ==
  /\ screen # "p002"
  /\ mounted
  /\ MainView
  /\ \E i, j, k \in DOMAIN moments :
       /\ ~moments[i].t
       /\ moments[j].t /\ moments[j].id \in failedThumbnails
       /\ ThumbnailShown(moments[k])

(***************************************************************************)
(* Frame of the aggregation.                                               *)
(***************************************************************************)
\* C16: the aggregation is read-only.  A step in which a fetchProfileData or
\* a fetchProfileStats invocation starts, resumes after an await or returns
\* leaves every table of the data store as it was; a step that resumes or
\* returns a fetchProfileData changes nothing but stats, moments, loading and
\* refreshing (and what tracks the invocation), and a step that resumes or
\* returns a fetchProfileStats changes nothing but profileStats.
AggregationReadsOnly ==
  [][LET startsData == calls'.fetchProfileData # <<>>
         startsStats == psSeq' # psSeq
         resumesData == \E r \in inv : Passed(r)
         resumesStats == \E r \in psInv : r \notin psInv'
         others == <<selectedChild, childLoading, mounted, focused,
                     failedThumbnails, avatarFor, timers, focusVer>>
     IN  /\ (startsData \/ startsStats \/ resumesData \/ resumesStats) =>
              /\ store' = store
              /\ storeVer' = storeVer
         /\ (resumesData /\ ~startsData /\ ~startsStats) =>
              /\ others' = others
              /\ profileStats' = profileStats
              /\ psInv' = psInv
         /\ resumesStats =>
              /\ others' = others
              /\ <<stats, moments, loading, refreshing, inv, alerts>>' =
                   <<stats, moments, loading, refreshing, inv, alerts>>]_vars

\* Both aggregations have run to completion for child 1 and the data store
\* still holds exactly its initial records.
AggregatedAndStoreIntact ==
  /\ selectedChild = 1
  /\ inv = {}
  /\ psInv = {}
  /\ statsBy # 0
  /\ momentsBy # 0
  /\ profileStats = [words |-> 2, books |-> 3]
  /\ store = InitStore
  /\ storeVer = 0

(***************************************************************************)
(* Child changes and the loading indicator.                                *)
(***************************************************************************)
\* C17: once every fetchProfileData invocation has settled (none of them
\* failed), the stats and the moments on display are those of the child that
\* is selected now, also when the child changed while a fetch for the
\* previous child was in flight: every displayed moment belongs to the
\* selected child and totalBooks is that child's number of books.
SettledShowsSelectedChild ==
  (/\ mounted
   /\ selectedChild # NoChild
   /\ inv = {}
   /\ failures = 0
   /\ statsBy # 0
   /\ momentsBy # 0) =>
    /\ \A i \in DOMAIN moments : RecChild[moments[i].id] = selectedChild
    /\ stats.totalBooks = Cardinality(Owned("user_books", selectedChild))

\* Child 2 is selected, nothing is in flight, nothing failed, and the screen
\* shows the three books and the moments of child 1.
PreviousChildShown ==
  /\ mounted
  /\ selectedChild = 2
  /\ inv = {}
  /\ failures = 0
  /\ statsBy = 1
  /\ momentsBy = 1
  /\ stats.totalBooks = 3
  /\ moments # <<>>
  /\ \A i \in DOMAIN moments : RecChild[moments[i].id] = 1

\* C18: if child loading has finished with no child selected and none was
\* ever selected, the screen eventually leaves its loading state and (on the
\* screens that have one) shows the 'No Child Selected' empty state, unless a
\* child gets selected first.
NoChildLeavesLoading ==
  (mounted /\ ~childLoading /\ selectedChild = NoChild /\ nextSeq = 1)
    ~> (\/ selectedChild # NoChild
        \/ ~loading /\ (screen # "ios" => EmptyStateShown))

\* profile.ios.tsx is mounted with no child and has left the loading state.
NoChildNotLoadingOnIos ==
  /\ screen = "ios"
  /\ mounted
  /\ ~childLoading
  /\ selectedChild = NoChild
  /\ nextSeq = 1
  /\ ~loading

\* C19: every fetchProfileData invocation sets loading to false: the call
\* with no child does it at once, an invocation for a child has done it in
\* the step in which it returns (success or failure), and, every query and
\* the processing settling eventually, every invocation does return; so once
\* invocations have run and none is in flight any more, loading is false.
EveryFetchClearsLoading ==
  /\ [][/\ (\E i \in DOMAIN calls'.fetchProfileData :
               calls'.fetchProfileData[i][1] = NoChild) => ~loading'
        /\ \A r \in inv : Returned(r) => ~loading']_vars
  /\ []((inv = {} /\ nextSeq > 1) => ~loading)
  /\ \A n \in 1..MaxFetches :
       (\E r \in inv : r.seq = n) ~> (\A r \in inv : r.seq # n)

\* Two invocations have run, one of them ended in the catch block, none is in
\* flight and loading is false.
SettledAfterFailure ==
  /\ nextSeq = 3
  /\ inv = {}
  /\ alerts = 1
  /\ ~loading

\* C20: loading is true in every state in which a fetchProfileData invocation
\* for a child still has outstanding queries, also when invocations overlap.
LoadingWhileQueriesOutstanding ==
  (\E r \in inv : r.pc = "await") => loading

\* One invocation has returned and cleared loading while the queries of
\* another are outstanding.
LoadingClearedWithFetchInFlight ==
  /\ ~loading
  /\ Cardinality(inv) = 1
  /\ nextSeq = 3
  /\ \E r \in inv : r.pc = "await"

(***************************************************************************)
(* Pull to refresh.                                                        *)
(***************************************************************************)
\* C21: after a pull to refresh has set refreshing, refreshing is not reset
\* to false before the fetchProfileData that pull started has settled.
RefreshingUntilPullSettled ==
  [][(refreshing /\ ~refreshing') => \A r \in inv' : r.seq # rf.seq]_vars

\* The refresh indicator is off while the fetch the last pull started is
\* still in flight.
RefreshingOffPullInFlight ==
  /\ screen = "tsx"
  /\ ~refreshing
  /\ \E r \in inv : r.seq = rf.seq

(***************************************************************************)
(* ProfileStatsProvider.                                                   *)
(***************************************************************************)
\* In this step the fetchProfileStats invocation r returned.
StatsReturned(r) == \A r2 \in psInv' : r2.seq # r.seq

\* The word and book records of child c.
CountsOf(c) ==
  [words |-> Cardinality(Owned("user_words", c)),
   books |-> Cardinality(Owned("user_books", c))]

\* C22: fetchProfileStats invoked while no child is selected (the provider's
\* effect after the selection was cleared) issues no query and sets
\* profileStats to {words: 0, books: 0}.
NoChildStatsFetchResets ==
  [][(selectedChild # NoChild /\ selectedChild' = NoChild) =>
       /\ profileStats' = [words |-> 0, books |-> 0]
       /\ psInv' = psInv
       /\ psSeq' = psSeq
       /\ calls'.statsPromise = "resolved"]_vars

\* The selection was cleared after the counts of a child had been fetched:
\* no query is in flight and the counts are back to 0.
StatsResetAfterFetch ==
  /\ selectedChild = NoChild
  /\ psSeq = 2
  /\ psInv = {}
  /\ failures = 0
  /\ calls.statsPromise = "resolved"
  /\ profileStats = [words |-> 0, books |-> 0]

\* C23: when the words or the books count query of a fetchProfileStats
\* invocation returned an error or rejected, the invocation leaves
\* profileStats exactly as it was and its promise resolves.
FailedStatsFetchKeepsCounts ==
  [][\A r \in psInv :
       (StatsReturned(r) /\ (r.words = Err \/ failures' # failures)) =>
         /\ profileStats' = profileStats
         /\ calls'.statsPromise = "resolved"]_vars

\* The counts of child 1 are shown, child 2 is selected and its fetch has
\* failed: the counts of child 1 are still there.
CountsKeptAfterFailure ==
  /\ selectedChild = 2
  /\ psInv = {}
  /\ psSeq = 3
  /\ failures = 1
  /\ calls.statsPromise = "resolved"
  /\ profileStats = [words |-> 2, books |-> 3]

\* C24: once every fetchProfileStats invocation has settled without error,
\* profileStats holds the word and book counts of the child selected now,
\* also when the child changed while an earlier fetch was in flight.
SettledStatsOfSelectedChild ==
  (psOn /\ selectedChild # NoChild /\ psInv = {} /\ failures = 0) =>
    profileStats = CountsOf(selectedChild)

\* Child 2 is selected, both fetches have settled without error, and the
\* provider holds the counts of child 1.
StatsOfPreviousChild ==
  /\ selectedChild = 2
  /\ psInv = {}
  /\ psSeq = 3
  /\ failures = 0
  /\ profileStats = [words |-> 2, books |-> 3]

\* C25: whenever showVideoPlayer is true, selectedMoment is non-null and
\* carries a signed video URL, through any sequence of presses and closes,
\* also when a press is still awaiting its URL while the player is closed.
PlayerShownHasUrl ==
  showVideoPlayer => (selectedMoment # NoMoment /\ selectedMoment.v)

\* The player shows a moment whose URL came from the resolver while a
\* second press is still awaiting its URL.
PlayerOpenedByResolver ==
  /\ showVideoPlayer
  /\ nextPress = 3
  /\ Cardinality(urlPending) = 1
  /\ \E i \in DOMAIN moments : moments[i].id = selectedMoment.id /\ ~moments[i].v

\* The pending handleMomentPress invocations that ended in this step.
PressesEnded == urlPending \ urlPending'

\* C26: handleMomentPress calls the resolver only for a moment without a
\* signed video URL; when the resolver returns null or throws, an alert is
\* raised, the handler returns, and selectedMoment and showVideoPlayer are
\* left as they were.
ResolverOnlyWhenNeededFailureAlerts ==
  [][/\ \A p \in urlPending' \ urlPending :
          \E i \in DOMAIN moments : moments[i].id = p.id /\ ~moments[i].v
     /\ (PressesEnded # {} /\ ~(showVideoPlayer' /\ selectedMoment'.id \in {p.id : p \in PressesEnded}
                                 /\ videoAlerts' = videoAlerts)) =>
          /\ videoAlerts'.unable + videoAlerts'.failed =
               videoAlerts.unable + videoAlerts.failed + 1
          /\ UNCHANGED <<selectedMoment, showVideoPlayer>>
     /\ videoAlerts' # videoAlerts =>
          /\ PressesEnded # {}
          /\ UNCHANGED <<selectedMoment, showVideoPlayer>>]_vars

\* The resolver threw for a press made while the player showed another
\* moment: the alert is raised and that moment is still playing.
FailedPressLeavesPlayer ==
  /\ videoAlerts.failed = 1
  /\ showVideoPlayer
  /\ selectedMoment # NoMoment
  /\ urlPending = {}

\* C27: the set of failed-thumbnail ids only grows: no step (a fetch, a
\* forced refresh, a pull to refresh, a change of the selected child) removes
\* an id from it, and a moment whose id is in the set shows the placeholder
\* after every step, also when a later fetch delivered it with a signed
\* thumbnail URL.
FailedThumbnailsOnlyGrow ==
  [][/\ failedThumbnails \subseteq failedThumbnails'
     /\ \A i \in DOMAIN moments' :
          moments'[i].id \in failedThumbnails => ~ThumbnailShown(moments[i])']_vars

\* After a pull to refresh whose fetch delivered the list now shown, a moment
\* carries a signed thumbnail URL and is still in the failed set, next to the
\* failed id of a moment of the child selected before.
StalePlaceholderAfterRefresh ==
  /\ screen = "tsx"
  /\ inv = {}
  /\ rf.seq # 0
  /\ momentsBy = rf.seq
  /\ selectedChild = 2
  /\ \E i \in DOMAIN moments : moments[i].t /\ moments[i].id \in failedThumbnails
  /\ \E id \in failedThumbnails : \A i \in DOMAIN moments : moments[i].id # id

\* What the six queries of screen sc yield for child c from the data store.
StatsOfScreen(sc, c) ==
  LET sow == WeekLowerBound(sc, now, tz)
      n(k) == Answer(store, sc, k, c, sow)
  IN  [totalWords |-> n("totalWords"), totalBooks |-> n("totalBooks"),
       wordsThisWeek |-> n("wordsThisWeek"), booksThisWeek |-> n("booksThisWeek"),
       momentsThisWeek |-> n("momentsThisWeek"),
       newWordsThisWeek |-> n("wordsThisWeek")]

\* C28: the three implementations of fetchProfileData are interchangeable
\* for the stats they produce: once the fetches of a mounted screen have
\* returned for the selected child, from the unchanged store and with no
\* failing query, stats has in all six fields the values every other screen
\* produces for that child.
ScreensAgreeOnStats ==
  (inv = {} /\ statsBy # 0 /\ selectedChild # NoChild) =>
    \A sc \in Screens : stats = StatsOfScreen(sc, selectedChild)

\* part_002 has fetched for child 1 and shows a total word count other than
\* the one profile.tsx produces for that child from the same store.
WordCountsDifferAcrossScreens ==
  /\ screen = "p002"
  /\ inv = {}
  /\ statsBy # 0
  /\ selectedChild = 1
  /\ stats.totalWords # StatsOfScreen("tsx", 1).totalWords

\* C29: debouncedFetchProfileData collapses a burst of calls into one
\* fetchProfileData: at most one debounce timer is pending at any time, also
\* across a change of the selected child, and no pending timer was armed for
\* a child other than the one selected now, so none fires a fetch for a
\* previous child.
OneTimerForSelectedChild ==
  /\ Len(timers) <= 1
  /\ \A i \in DOMAIN timers : timers[i].child = selectedChild

\* Two timers are pending: one armed for child 1 by the closure of the
\* previous render, which can no longer be cleared, and one armed for
\* child 2, now selected.
TwoTimersAcrossChildChange ==
  /\ Len(timers) = 2
  /\ timers[1].child = 1 /\ ~timers[1].live
  /\ timers[2].child = 2 /\ timers[2].live
  /\ selectedChild = 2

====
